---------------------------- MODULE Spec2Model ----------------------------
(***************************************************************************)
(* A model of homoHanzi.py: the ChineseCharacterSystem record store, its   *)
(* record codec (frontmatter encode / decode), the radical -> characters   *)
(* inverted index, the queries, the renderers and the CSV importer.        *)
(*                                                                         *)
(* Conventions.                                                            *)
(*  - A Python str is a sequence of one-character strings, so that the     *)
(*    substring tests, lower(), split(",") and strip() of the source are   *)
(*    computed character by character.  Chinese graphemes are written with *)
(*    ASCII stand-ins ("m" for the radical mu, "l" for lin, ...).          *)
(*  - A Python dict is a record [keys, val]: keys is the insertion order   *)
(*    (the order of iteration), val the mapping.                           *)
(*  - An Optional value is a sequence of length 0 (None) or 1.             *)
(*  - An Enum member is written by its member name ("SEMANTIC"); its       *)
(*    .value is looked up in RadicalTypeValue / StrokeTypeValue.           *)
(***************************************************************************)
EXTENDS Integers, Sequences, FiniteSets, TLC

VARIABLES
    phase,          \* "new": inside __init__, before load_data; "live"; "raised": __init__ raised
    radicals,       \* self.radicals       : dict key -> Radical
    characters,     \* self.characters     : dict key -> Character
    radical_index,  \* self.radical_index  : dict radical key -> set of character keys
    files,          \* the three document roots: files[root][subarea] : file stem -> content
    ret,            \* the last call: [op, arg, outcome, value]
    added,          \* the Character values for which add_character returned True
    calls,          \* number of mutating calls made (add_radical, add_character, import_from_csv)
    faults          \* number of I/O failures that have occurred

vars == <<phase, radicals, characters, radical_index, files, ret, added, calls, faults>>

-----------------------------------------------------------------------------
(* Bounds of the model. *)

\* Most mutating calls in one behaviour.
MaxCalls == 2
\* Most I/O failures in one behaviour.
MaxFaults == 1
\* Most record files present in the plain root before construction.
MaxFiles == 2
\* Most rows of an imported table.
MaxRows == 2

-----------------------------------------------------------------------------
(* Generic helpers. *)

Range(s) == {s[i] : i \in 1..Len(s)}

\* The sequences that list every element of the set S exactly once.
Perms(S) == {s \in [1..Cardinality(S) -> S] : Range(s) = S}

Some(v) == <<v>>
None == <<>>

\* Python dict (insertion ordered).
EmptyDict == [keys |-> <<>>, val |-> <<>>]
DictHas(d, k) == k \in DOMAIN d.val
DictKeys(d) == DOMAIN d.val
\* d[k] = v : a new key goes last, an existing key keeps its place.
DictPut(d, k, v) ==
    IF DictHas(d, k)
    THEN [keys |-> d.keys, val |-> [d.val EXCEPT ![k] = v]]
    ELSE [keys |-> Append(d.keys, k),
          val |-> [x \in DOMAIN d.val \cup {k} |-> IF x = k THEN v ELSE d.val[x]]]
\* list(d.values())
DictValues(d) == [i \in 1..Len(d.keys) |-> d.val[d.keys[i]]]

-----------------------------------------------------------------------------
(* Strings. *)

Upper == <<"A", "B", "C", "D", "E", "F", "G", "H", "I", "J", "K", "L", "M",
           "N", "O", "P", "Q", "R", "S", "T", "U", "V", "W", "X", "Y", "Z">>
Lower == <<"a", "b", "c", "d", "e", "f", "g", "h", "i", "j", "k", "l", "m",
           "n", "o", "p", "q", "r", "s", "t", "u", "v", "w", "x", "y", "z">>

LowerChar(c) ==
    IF \E i \in 1..Len(Upper) : Upper[i] = c
    THEN Lower[CHOOSE i \in 1..Len(Upper) : Upper[i] = c]
    ELSE c

\* str.lower()
StrLower(s) == [i \in 1..Len(s) |-> LowerChar(s[i])]

\* q in s, for two strs
StrIn(q, s) ==
    \E i \in 0..(Len(s) - Len(q)) : \A j \in 1..Len(q) : s[i + j] = q[j]

-----------------------------------------------------------------------------
(* Domain model: src lines 11-54. *)

RadicalTypeValue ==
    [SEMANTIC |-> <<"s", "e", "m", "a", "n", "t", "i", "c">>,
     PHONETIC |-> <<"p", "h", "o", "n", "e", "t", "i", "c">>,
     BOTH     |-> <<"b", "o", "t", "h">>,
     UNKNOWN  |-> <<"u", "n", "k", "n", "o", "w", "n">>]

\* The eight stroke graphemes, written with one ASCII letter each.
StrokeTypeValue ==
    [HORIZONTAL     |-> <<"H">>,
     VERTICAL       |-> <<"V">>,
     LEFT_DIAGONAL  |-> <<"P">>,
     RIGHT_DIAGONAL |-> <<"N">>,
     DOT            |-> <<"D">>,
     HOOK           |-> <<"G">>,
     RISING         |-> <<"T">>,
     BEND           |-> <<"Z">>]

\* Enum(value): the member with that value; the call raises ValueError when there is none.
IsEnumValue(enum, v) == \E m \in DOMAIN enum : enum[m] = v
EnumOf(enum, v) == CHOOSE m \in DOMAIN enum : enum[m] = v

\* Radical(...): the fields left out take the dataclass defaults.
NewRadical(character, pinyin, meaning, type, strokes, mnemonic) ==
    [character |-> character, pinyin |-> pinyin, meaning |-> meaning,
     type |-> type, strokes |-> strokes,
     stroke_order |-> <<>>, common_characters |-> <<>>, mnemonic |-> mnemonic]

\* Character(...): the fields left out take the dataclass defaults.
NewCharacter(character, pinyin, tone, meaning, rads, strokes, mnemonic) ==
    [character |-> character, pinyin |-> pinyin, tone |-> tone,
     meaning |-> meaning, radicals |-> rads, strokes |-> strokes,
     stroke_order |-> <<>>, components |-> <<>>, hsk_level |-> 0,
     frequency_rank |-> 0, mnemonic |-> mnemonic, example_words |-> <<>>,
     tags |-> <<>>]

-----------------------------------------------------------------------------
(* Record codec, encode side: the frontmatter dict of _save_radical and    *)
(* _save_character.  A frontmatter is a function from the keys present to   *)
(* their values; enum members are written by their .value.                  *)

\* frontmatter[k] = v under "if cond:"
WithKey(fm, cond, k, v) == IF cond THEN fm @@ (k :> v) ELSE fm

\* [stroke.value for stroke in stroke_order]
StrokeValues(stroke_order) ==
    [i \in 1..Len(stroke_order) |-> StrokeTypeValue[stroke_order[i]]]

RadicalFrontmatter(radical) ==
    LET base == [character |-> radical.character,
                 pinyin    |-> radical.pinyin,
                 meaning   |-> radical.meaning,
                 type      |-> RadicalTypeValue[radical.type],
                 strokes   |-> radical.strokes,
                 mnemonic  |-> radical.mnemonic]
        f1 == WithKey(base, radical.stroke_order # <<>>,
                      "stroke_order", StrokeValues(radical.stroke_order))
    IN  WithKey(f1, radical.common_characters # <<>>,
                "common_characters", radical.common_characters)

\* A slip: frequency_rank written under the test of hsk_level.
CharacterFrontmatterRankUnderHsk(character) ==
    LET base == [character |-> character.character,
                 pinyin    |-> character.pinyin,
                 tone      |-> character.tone,
                 meaning   |-> character.meaning,
                 radicals  |-> character.radicals,
                 strokes   |-> character.strokes,
                 mnemonic  |-> character.mnemonic]
        f1 == WithKey(base, character.stroke_order # <<>>,
                      "stroke_order", StrokeValues(character.stroke_order))
        f2 == WithKey(f1, character.components # <<>>,
                      "components", character.components)
        f3 == WithKey(f2, character.example_words # <<>>,
                      "example_words", character.example_words)
        f4 == WithKey(f3, character.tags # <<>>, "tags", character.tags)
        f5 == WithKey(f4, character.hsk_level # 0,
                      "hsk_level", character.hsk_level)
    IN  WithKey(f5, character.hsk_level # 0,
                "frequency_rank", character.frequency_rank)

CharacterFrontmatter(character) ==
    LET base == [character |-> character.character,
                 pinyin    |-> character.pinyin,
                 tone      |-> character.tone,
                 meaning   |-> character.meaning,
                 radicals  |-> character.radicals,
                 strokes   |-> character.strokes,
                 mnemonic  |-> character.mnemonic]
        f1 == WithKey(base, character.stroke_order # <<>>,
                      "stroke_order", StrokeValues(character.stroke_order))
        f2 == WithKey(f1, character.components # <<>>,
                      "components", character.components)
        f3 == WithKey(f2, character.example_words # <<>>,
                      "example_words", character.example_words)
        f4 == WithKey(f3, character.tags # <<>>, "tags", character.tags)
        f5 == WithKey(f4, character.hsk_level # 0,
                      "hsk_level", character.hsk_level)
    IN  WithKey(f5, character.frequency_rank # 0,
                "frequency_rank", character.frequency_rank)

(***************************************************************************)
(* The text of a record file, as far as the parsers and the writers tell    *)
(* it apart:                                                               *)
(*   block : the text starts with a "---" ... "---" block (the regex of     *)
(*           the parsers matches);                                         *)
(*   yaml  : what yaml.safe_load makes of the block: "mapping" (a dict) or  *)
(*           "error" (it raises, or returns a value without .get);          *)
(*   fm    : the mapping, for the keys whose value is not null;            *)
(*   nulls : the keys of the mapping whose value is null (an empty value); *)
(*   body  : which markup follows the block.                               *)
(***************************************************************************)
Document(fm, body) ==
    [block |-> TRUE, yaml |-> "mapping", fm |-> fm, nulls |-> {}, body |-> body]

\* f"""---\n{yaml.dump(frontmatter)}---\n ...""" : the three texts of a radical.
\* The VS Code file of a radical is written from the plain text itself.
RadicalPlain(radical) == Document(RadicalFrontmatter(radical), "plain")
RadicalVscode(radical) == RadicalPlain(radical)
RadicalObsidian(radical) == Document(RadicalFrontmatter(radical), "obsidian")

\* The three texts of a character; the VS Code text is the plain text plus a snippet.
\* A slip: the radicals key left out of the block.
CharacterPlainRadicalsDropped(character) ==
    LET fm == CharacterFrontmatter(character)
    IN  Document([k \in DOMAIN fm \ {"radicals"} |-> fm[k]], "plain")
CharacterPlain(character) == Document(CharacterFrontmatter(character), "plain")
CharacterVscode(character) ==
    [CharacterPlain(character) EXCEPT !.body = "vscode"]
CharacterObsidian(character) ==
    Document(CharacterFrontmatter(character), "obsidian")

-----------------------------------------------------------------------------
(* Record codec, decode side. *)

\* frontmatter.get(k, default), for a key whose value is not null
FrontGet(fm, k, default) == IF k \in DOMAIN fm THEN fm[k] ELSE default

\* [StrokeType(s) for s in stroke_order] raises ValueError on an unknown literal
StrokesParse(values) ==
    [i \in 1..Len(values) |-> EnumOf(StrokeTypeValue, values[i])]
StrokesValid(values) ==
    \A i \in 1..Len(values) : IsEnumValue(StrokeTypeValue, values[i])

\* Whether the body of the try block gets as far as a frontmatter dict.
HasFrontmatter(content) == content.block /\ content.yaml = "mapping"

\* _parse_radical_file: None when there is no block, and None from the
\* except clause when anything in the try block raises.
ParseRadicalFile(content) ==
    IF ~content.block THEN None
    ELSE IF content.yaml # "mapping" THEN None
    ELSE LET fm == content.fm
             type == FrontGet(fm, "type", RadicalTypeValue.UNKNOWN)
             stroke_order == FrontGet(fm, "stroke_order", <<>>)
             common_chars == FrontGet(fm, "common_characters", <<>>)
         IN  IF ~IsEnumValue(RadicalTypeValue, type) THEN None
             ELSE IF ~StrokesValid(stroke_order) THEN None
             ELSE Some([NewRadical(FrontGet(fm, "character", <<>>),
                                   FrontGet(fm, "pinyin", <<>>),
                                   FrontGet(fm, "meaning", <<>>),
                                   EnumOf(RadicalTypeValue, type),
                                   FrontGet(fm, "strokes", 0),
                                   FrontGet(fm, "mnemonic", <<>>))
                        EXCEPT !.stroke_order = StrokesParse(stroke_order),
                               !.common_characters = common_chars])

\* _parse_character_file.  When the radicals key holds null the Character is
\* built with radicals = None: RadicalsIterable tells, and the radicals field
\* of the value returned here is then a placeholder that nothing reads.
RadicalsIterable(content) == "radicals" \notin content.nulls

ParseCharacterFile(content) ==
    IF ~content.block THEN None
    ELSE IF content.yaml # "mapping" THEN None
    ELSE LET fm == content.fm
             stroke_order == FrontGet(fm, "stroke_order", <<>>)
         IN  IF ~StrokesValid(stroke_order) THEN None
             ELSE Some([NewCharacter(FrontGet(fm, "character", <<>>),
                                     FrontGet(fm, "pinyin", <<>>),
                                     FrontGet(fm, "tone", 0),
                                     FrontGet(fm, "meaning", <<>>),
                                     FrontGet(fm, "radicals", <<>>),
                                     FrontGet(fm, "strokes", 0),
                                     FrontGet(fm, "mnemonic", <<>>))
                        EXCEPT !.hsk_level = FrontGet(fm, "hsk_level", 0),
                               !.frequency_rank = FrontGet(fm, "frequency_rank", 0),
                               !.stroke_order = StrokesParse(stroke_order),
                               !.components = FrontGet(fm, "components", <<>>),
                               !.example_words = FrontGet(fm, "example_words", <<>>),
                               !.tags = FrontGet(fm, "tags", <<>>)])

-----------------------------------------------------------------------------
(* The document roots.  files[root][subarea] maps a file stem (the name     *)
(* without ".md") to the text of the file.                                  *)

Roots == {"root_dir", "vscode_dir", "obsidian_dir"}
NoFiles == <<>>
EmptyRoot == [radicals |-> NoFiles, characters |-> NoFiles]

\* (dir / f"{stem}.md").write_text(content): creates or overwrites
WriteText(fs, root, sub, stem, content) ==
    [fs EXCEPT ![root][sub] = (stem :> content) @@ @]

(***************************************************************************)
(* _save_radical / _save_character: three writes, in the order plain, VS    *)
(* Code, Obsidian.  fault = 0: every write succeeds; fault = i (1..3): the  *)
(* i-th write (or the mkdir before it) raises OSError, which leaves the     *)
(* earlier files written and propagates to the caller.                      *)
(***************************************************************************)
SaveRadical(fs, radical, fault) ==
    LET stem == radical.character
        w1 == WriteText(fs, "root_dir", "radicals", stem, RadicalPlain(radical))
        w2 == WriteText(w1, "vscode_dir", "radicals", stem, RadicalVscode(radical))
        w3 == WriteText(w2, "obsidian_dir", "radicals", stem, RadicalObsidian(radical))
    IN  CASE fault = 0 -> [files |-> w3, raised |-> FALSE]
          [] fault = 1 -> [files |-> fs, raised |-> TRUE]
          [] fault = 2 -> [files |-> w1, raised |-> TRUE]
          [] fault = 3 -> [files |-> w2, raised |-> TRUE]

\* A slip: the Obsidian text written under the VS Code root.
SaveCharacterWrongRoot(fs, character, fault) ==
    LET stem == character.character
        w1 == WriteText(fs, "root_dir", "characters", stem, CharacterPlain(character))
        w2 == WriteText(w1, "vscode_dir", "characters", stem, CharacterVscode(character))
        w3 == WriteText(w2, "vscode_dir", "characters", stem, CharacterObsidian(character))
    IN  CASE fault = 0 -> [files |-> w3, raised |-> FALSE]
          [] fault = 1 -> [files |-> fs, raised |-> TRUE]
          [] fault = 2 -> [files |-> w1, raised |-> TRUE]
          [] fault = 3 -> [files |-> w2, raised |-> TRUE]

SaveCharacter(fs, character, fault) ==
    LET stem == character.character
        w1 == WriteText(fs, "root_dir", "characters", stem, CharacterPlain(character))
        w2 == WriteText(w1, "vscode_dir", "characters", stem, CharacterVscode(character))
        w3 == WriteText(w2, "obsidian_dir", "characters", stem, CharacterObsidian(character))
    IN  CASE fault = 0 -> [files |-> w3, raised |-> FALSE]
          [] fault = 1 -> [files |-> fs, raised |-> TRUE]
          [] fault = 2 -> [files |-> w1, raised |-> TRUE]
          [] fault = 3 -> [files |-> w2, raised |-> TRUE]

-----------------------------------------------------------------------------
(* The store.  The operations are functions of a store value                *)
(*   st = [radicals, characters, radical_index, files, added]               *)
(* so that import_from_csv can call them row after row; each returns        *)
(* [st, outcome, value], outcome being "returned" or "raised".              *)

Store ==
    [radicals |-> radicals, characters |-> characters,
     radical_index |-> radical_index, files |-> files, added |-> added]

\* A slip: the set of a radical replaced by {key} instead of extended.
RECURSIVE UpdateRadicalIndexOverwrite(_, _, _)
UpdateRadicalIndexOverwrite(index, rads, key) ==
    IF rads = <<>> THEN index
    ELSE UpdateRadicalIndexOverwrite(DictPut(index, Head(rads), {key}),
                                     Tail(rads), key)

\* for radical in character.radicals: ... self.radical_index[radical].add(key)
\* (the loop of add_character, and the same loop in load_data)
RECURSIVE UpdateRadicalIndex(_, _, _)
UpdateRadicalIndex(index, rads, key) ==
    IF rads = <<>> THEN index
    ELSE LET radical == Head(rads)
             i1 == IF ~DictHas(index, radical) THEN DictPut(index, radical, {})
                   ELSE index
         IN  UpdateRadicalIndex(DictPut(i1, radical, i1.val[radical] \cup {key}),
                                Tail(rads), key)

\* if radical.character in self.radicals
RadicalExists(st, radical) == DictHas(st.radicals, radical.character)
\* A slip: the key looked up in self.radicals.
CharacterExistsInRadicals(st, character) ==
    DictHas(st.radicals, character.character)

\* if character.character in self.characters
CharacterExists(st, character) == DictHas(st.characters, character.character)

\* A slip: no test of the key, so that a second add replaces the value.
add_radical_replacing(st, radical, fault) ==
    LET saved == SaveRadical(st.files, radical, fault)
    IN  [st |-> [st EXCEPT
                   !.radicals = DictPut(@, radical.character, radical),
                   !.files = saved.files],
         outcome |-> IF saved.raised THEN "raised" ELSE "returned",
         value |-> ~saved.raised]

add_radical(st, radical, fault) ==
    IF RadicalExists(st, radical)
    THEN [st |-> st, outcome |-> "returned", value |-> FALSE]
    ELSE LET saved == SaveRadical(st.files, radical, fault)
         IN  [st |-> [st EXCEPT
                        !.radicals = DictPut(@, radical.character, radical),
                        !.files = saved.files],
              outcome |-> IF saved.raised THEN "raised" ELSE "returned",
              value |-> ~saved.raised]

\* A slip: a character is refused when one of its radicals is not stored.
add_character_known_radicals(st, character, fault) ==
    IF CharacterExists(st, character)
       \/ \E i \in 1..Len(character.radicals) :
             ~DictHas(st.radicals, character.radicals[i])
    THEN [st |-> st, outcome |-> "returned", value |-> FALSE]
    ELSE LET saved == SaveCharacter(st.files, character, fault)
         IN  [st |-> [st EXCEPT
                        !.characters = DictPut(@, character.character, character),
                        !.radical_index =
                            UpdateRadicalIndex(@, character.radicals,
                                               character.character),
                        !.files = saved.files,
                        !.added = IF saved.raised THEN @ ELSE @ \cup {character}],
              outcome |-> IF saved.raised THEN "raised" ELSE "returned",
              value |-> ~saved.raised]

add_character(st, character, fault) ==
    IF CharacterExists(st, character)
    THEN [st |-> st, outcome |-> "returned", value |-> FALSE]
    ELSE LET saved == SaveCharacter(st.files, character, fault)
         IN  [st |-> [st EXCEPT
                        !.characters = DictPut(@, character.character, character),
                        !.radical_index =
                            UpdateRadicalIndex(@, character.radicals,
                                               character.character),
                        !.files = saved.files,
                        !.added = IF saved.raised THEN @ ELSE @ \cup {character}],
              outcome |-> IF saved.raised THEN "raised" ELSE "returned",
              value |-> ~saved.raised]

-----------------------------------------------------------------------------
(* load_data.  glob yields the files of a directory in an order the file    *)
(* system chooses: the scan is computed for a given order.                  *)

RECURSIVE LoadRadicals(_, _, _)
LoadRadicals(dir, order, rads) ==
    IF order = <<>> THEN rads
    ELSE LET radical == ParseRadicalFile(dir[Head(order)])
         IN  LoadRadicals(dir, Tail(order),
                          IF radical # None
                          THEN DictPut(rads, radical[1].character, radical[1])
                          ELSE rads)

\* acc = [characters, radical_index, raised].  A Character whose radicals is
\* None is stored, and then "for radical in character.radicals" raises
\* TypeError outside any try block: load_data and __init__ raise, and the
\* files later in the scan are not read.
RECURSIVE LoadCharacters(_, _, _)
LoadCharacters(dir, order, acc) ==
    IF order = <<>> THEN acc
    ELSE LET content == dir[Head(order)]
             character == ParseCharacterFile(content)
         IN  IF character = None THEN LoadCharacters(dir, Tail(order), acc)
             ELSE IF ~RadicalsIterable(content)
             THEN [acc EXCEPT !.characters =
                                 DictPut(acc.characters, character[1].character,
                                         character[1]),
                              !.raised = TRUE]
             ELSE LoadCharacters(dir, Tail(order),
                    [characters |->
                        DictPut(acc.characters, character[1].character,
                                character[1]),
                     radical_index |->
                        UpdateRadicalIndex(acc.radical_index,
                                           character[1].radicals,
                                           character[1].character),
                     raised |-> FALSE])

-----------------------------------------------------------------------------
(* Queries. *)

\* [self.characters[char] for char in order if char in self.characters]
RECURSIVE CharactersOf(_, _)
CharactersOf(st, order) ==
    IF order = <<>> THEN <<>>
    ELSE (IF DictHas(st.characters, Head(order))
          THEN <<st.characters.val[Head(order)]>> ELSE <<>>)
         \o CharactersOf(st, Tail(order))

\* A slip: one entry for every occurrence of the radical in a radicals list.
RECURSIVE OccurrencesOf(_, _, _)
OccurrencesOf(st, radical, order) ==
    IF order = <<>> THEN <<>>
    ELSE LET char == st.characters.val[Head(order)]
         IN  [i \in 1..Cardinality({j \in 1..Len(char.radicals) :
                                       char.radicals[j] = radical}) |-> char]
             \o OccurrencesOf(st, radical, Tail(order))

get_characters_by_occurrence(st, radical, order) ==
    IF ~DictHas(st.radical_index, radical) THEN <<>>
    ELSE OccurrencesOf(st, radical, order)

\* get_characters_by_radical; order is the order in which the set
\* self.radical_index[radical] is iterated (any order of its elements).
get_characters_by_radical(st, radical, order) ==
    IF ~DictHas(st.radical_index, radical) THEN <<>>
    ELSE CharactersOf(st, order)

\* The orders in which the set indexed under a key may be iterated.
IterationOrders(st, radical) ==
    IF ~DictHas(st.radical_index, radical) THEN {<<>>}
    ELSE Perms(st.radical_index.val[radical])

\* A slip: no "continue", so every criterion that matches appends.
SearchStepNoContinue(results, query, char) ==
    LET r1 == IF StrIn(query, char.character) THEN Append(results, char)
              ELSE results
        r2 == IF StrIn(StrLower(query), StrLower(char.pinyin))
              THEN Append(r1, char) ELSE r1
        r3 == IF \E i \in 1..Len(char.meaning) :
                     StrIn(StrLower(query), StrLower(char.meaning[i]))
              THEN Append(r2, char) ELSE r2
    IN  IF \E i \in 1..Len(char.tags) :
               StrIn(StrLower(query), StrLower(char.tags[i]))
        THEN Append(r3, char) ELSE r3

\* The body of the loop of search_characters: the first criterion that
\* matches appends the character and goes on to the next one.
SearchStep(results, query, char) ==
    IF StrIn(query, char.character) THEN Append(results, char)
    ELSE IF StrIn(StrLower(query), StrLower(char.pinyin)) THEN Append(results, char)
    ELSE IF \E i \in 1..Len(char.meaning) :
                StrIn(StrLower(query), StrLower(char.meaning[i]))
         THEN Append(results, char)
    ELSE IF \E i \in 1..Len(char.tags) :
                StrIn(StrLower(query), StrLower(char.tags[i]))
         THEN Append(results, char)
    ELSE results

RECURSIVE SearchLoop(_, _, _)
SearchLoop(results, query, chars) ==
    IF chars = <<>> THEN results
    ELSE SearchLoop(SearchStep(results, query, Head(chars)), query, Tail(chars))

search_characters(st, query) == SearchLoop(<<>>, query, DictValues(st.characters))

-----------------------------------------------------------------------------
(* generate_stats. *)

\* The [:10] of most_common_radicals.
TopRadicals == 10

\* stats["characters_by_hsk_level"], as its loop builds it.
CharactersByHskLevel(chars) ==
    [k \in {chars[i].hsk_level : i \in 1..Len(chars)} |->
        Cardinality({i \in 1..Len(chars) : chars[i].hsk_level = k})]

\* stats["characters_by_stroke_count"], as its loop builds it.
CharactersByStrokeCount(chars) ==
    [k \in {chars[i].strokes : i \in 1..Len(chars)} |->
        Cardinality({i \in 1..Len(chars) : chars[i].strokes = k})]

\* sorted(items, key=count, reverse=True): a stable sort, so an item goes
\* after the ones already placed whose count is not smaller.
InsertByCount(sorted, item) ==
    LET n == Cardinality({i \in 1..Len(sorted) : sorted[i].count >= item.count})
    IN  SubSeq(sorted, 1, n) \o <<item>> \o SubSeq(sorted, n + 1, Len(sorted))

RECURSIVE SortByCount(_, _)
SortByCount(sorted, items) ==
    IF items = <<>> THEN sorted
    ELSE SortByCount(InsertByCount(sorted, Head(items)), Tail(items))

\* s[:n]
Take(s, n) == SubSeq(s, 1, IF Len(s) < n THEN Len(s) ELSE n)

\* [{"radical": rad, "count": len(chars)} for rad, chars in radical_index.items()]
RadicalCounts(index) ==
    [i \in 1..Len(index.keys) |->
        [radical |-> index.keys[i],
         count |-> Cardinality(index.val[index.keys[i]])]]

\* A slip: the [:10] left out.
MostCommonRadicalsUnsliced(index) == SortByCount(<<>>, RadicalCounts(index))

MostCommonRadicals(index) ==
    Take(SortByCount(<<>>, RadicalCounts(index)), TopRadicals)

generate_stats(st) ==
    [total_characters |-> Len(st.characters.keys),
     total_radicals |-> Len(st.radicals.keys),
     characters_by_hsk_level |-> CharactersByHskLevel(DictValues(st.characters)),
     characters_by_stroke_count |->
        CharactersByStrokeCount(DictValues(st.characters)),
     most_common_radicals |-> MostCommonRadicals(st.radical_index)]

-----------------------------------------------------------------------------
(* Renderers.  The files they write lie outside the three document roots    *)
(* and nothing reads them back: what is written is part of the call's       *)
(* result.  fault: the open / write raises, which the except clause turns   *)
(* into the return value False.                                             *)

Digits == <<"0", "1", "2", "3", "4", "5", "6", "7", "8", "9">>

\* str(n)
RECURSIVE IntToStr(_)
IntToStr(n) ==
    IF n < 0 THEN <<"-">> \o IntToStr(0 - n)
    ELSE IF n < 10 THEN <<Digits[n + 1]>>
    ELSE IntToStr(n \div 10) \o <<Digits[(n % 10) + 1]>>

\* ', '.join(items)
RECURSIVE Join(_)
Join(items) ==
    IF items = <<>> THEN <<>>
    ELSE IF Len(items) = 1 THEN items[1]
    ELSE items[1] \o <<",", " ">> \o Join(Tail(items))

AnkiHeader ==
    <<"character", "pinyin", "meaning", "mnemonic", "radicals", "strokes">>

AnkiCharacterRows(chars) ==
    [i \in 1..Len(chars) |->
        <<chars[i].character, chars[i].pinyin, Join(chars[i].meaning),
          chars[i].mnemonic, Join(chars[i].radicals), IntToStr(chars[i].strokes)>>]

AnkiRadicalRows(rads) ==
    [i \in 1..Len(rads) |->
        <<rads[i].character, rads[i].pinyin, rads[i].meaning, rads[i].mnemonic,
          <<>>, IntToStr(rads[i].strokes)>>]

generate_anki_deck(st, include_radicals, fault) ==
    IF fault THEN [ok |-> FALSE, written |-> <<>>]
    ELSE [ok |-> TRUE,
          written |-> <<AnkiHeader>>
                      \o AnkiCharacterRows(DictValues(st.characters))
                      \o (IF include_radicals
                          THEN AnkiRadicalRows(DictValues(st.radicals))
                          ELSE <<>>)]

\* The [:20] of generate_stroke_order_practice.
PracticeLimit == 20

PracticeSections(chars) ==
    [i \in 1..Len(chars) |->
        [character |-> chars[i].character,
         meaning |-> Join(chars[i].meaning),
         pinyin |-> chars[i].pinyin,
         tone |-> chars[i].tone,
         strokes |-> chars[i].strokes,
         stroke_order |-> StrokeValues(chars[i].stroke_order)]]

generate_stroke_order_practice(st, fault) ==
    IF fault THEN [ok |-> FALSE, written |-> <<>>]
    ELSE [ok |-> TRUE,
          written |-> PracticeSections(Take(DictValues(st.characters),
                                            PracticeLimit))]

-----------------------------------------------------------------------------
(* import_from_csv.  A table is the sequence of the rows csv.DictReader      *)
(* yields; a row maps the column names of the header to the cells.           *)

IsDigitChar(c) == \E i \in 1..Len(Digits) : Digits[i] = c
DigitValue(c) == (CHOOSE i \in 1..Len(Digits) : Digits[i] = c) - 1

\* s.strip()
RECURSIVE Strip(_)
Strip(s) ==
    IF s = <<>> THEN s
    ELSE IF Head(s) = " " THEN Strip(Tail(s))
    ELSE IF s[Len(s)] = " " THEN Strip(SubSeq(s, 1, Len(s) - 1))
    ELSE s

\* s.split(",") : "" gives [""]
RECURSIVE Split(_)
Split(s) ==
    IF \A i \in 1..Len(s) : s[i] # ","
    THEN <<s>>
    ELSE LET i == CHOOSE j \in 1..Len(s) :
                    s[j] = "," /\ \A k \in 1..(j - 1) : s[k] # ","
         IN  <<SubSeq(s, 1, i - 1)>> \o Split(SubSeq(s, i + 1, Len(s)))

\* [x.strip() for x in cell.split(",")]
SplitStrip(cell) ==
    LET parts == Split(cell) IN [i \in 1..Len(parts) |-> Strip(parts[i])]

\* s.isdigit()
IsDigitStr(s) == s # <<>> /\ \A i \in 1..Len(s) : IsDigitChar(s[i])

RECURSIVE DigitsValue(_)
DigitsValue(s) ==
    IF s = <<>> THEN 0
    ELSE 10 * DigitsValue(SubSeq(s, 1, Len(s) - 1)) + DigitValue(s[Len(s)])

\* int(s): blanks around, an optional sign, digits; otherwise ValueError.
IntBody(s) ==
    LET t == Strip(s)
    IN  IF t # <<>> /\ t[1] \in {"+", "-"} THEN Tail(t) ELSE t
IntValid(s) == IsDigitStr(IntBody(s))
IntOf(s) ==
    LET t == Strip(s)
    IN  IF t[1] = "-" THEN 0 - DigitsValue(IntBody(s)) ELSE DigitsValue(IntBody(s))

\* row.get(col, "")
Cell(row, col) == IF col \in DOMAIN row THEN row[col] ELSE <<>>

\* int(row.get(col, 0)): the default 0 is an int already.
IntCellValid(row, col) == col \notin DOMAIN row \/ IntValid(row[col])
IntCell(row, col) == IF col \notin DOMAIN row THEN 0 ELSE IntOf(row[col])

\* RadicalType(row.get("type", "unknown"))
TypeCell(row) ==
    IF "type" \in DOMAIN row THEN row["type"] ELSE RadicalTypeValue.UNKNOWN

\* [StrokeType(s.strip()) for s in cell.split(",")] under "if stroke_order:"
StrokeCellValid(row) ==
    Cell(row, "stroke_order") = <<>>
    \/ StrokesValid(SplitStrip(Cell(row, "stroke_order")))
StrokeCell(row) ==
    IF Cell(row, "stroke_order") = <<>> THEN <<>>
    ELSE StrokesParse(SplitStrip(Cell(row, "stroke_order")))

\* [x.strip() for x in cell.split(",")] under "if cell:"
ListCell(row, col) ==
    IF Cell(row, col) = <<>> THEN <<>> ELSE SplitStrip(Cell(row, col))

\* row.get("is_radical", "").lower() == "true"
IsRadicalRow(row) == StrLower(Cell(row, "is_radical")) = <<"t", "r", "u", "e">>

\* The radical branch up to the call of add_radical: None when it raises.
RadicalOfRow(row) ==
    IF ~IsEnumValue(RadicalTypeValue, TypeCell(row)) THEN None
    ELSE IF ~IntCellValid(row, "strokes") THEN None
    ELSE IF ~StrokeCellValid(row) THEN None
    ELSE Some([NewRadical(Cell(row, "character"), Cell(row, "pinyin"),
                          Cell(row, "meaning"),
                          EnumOf(RadicalTypeValue, TypeCell(row)),
                          IntCell(row, "strokes"), Cell(row, "mnemonic"))
               EXCEPT !.stroke_order = StrokeCell(row),
                      !.common_characters = ListCell(row, "common_characters")])

\* A slip: hsk_level and frequency_rank converted with int() like the other
\* numeric cells, so that a filled cell that is no integer raises.
CharacterOfRowAllInts(row) ==
    IF ~IntCellValid(row, "tone") THEN None
    ELSE IF ~IntCellValid(row, "strokes") THEN None
    ELSE IF ~StrokeCellValid(row) THEN None
    ELSE IF Cell(row, "hsk_level") # <<>> /\ ~IntValid(Cell(row, "hsk_level"))
    THEN None
    ELSE IF Cell(row, "frequency_rank") # <<>>
            /\ ~IntValid(Cell(row, "frequency_rank"))
    THEN None
    ELSE Some([NewCharacter(Cell(row, "character"), Cell(row, "pinyin"),
                            IntCell(row, "tone"),
                            SplitStrip(Cell(row, "meaning")),
                            SplitStrip(Cell(row, "radicals")),
                            IntCell(row, "strokes"), Cell(row, "mnemonic"))
               EXCEPT !.stroke_order = StrokeCell(row),
                      !.components = ListCell(row, "components"),
                      !.hsk_level =
                          IF IsDigitStr(Cell(row, "hsk_level"))
                          THEN DigitsValue(Cell(row, "hsk_level")) ELSE 0,
                      !.frequency_rank =
                          IF IsDigitStr(Cell(row, "frequency_rank"))
                          THEN DigitsValue(Cell(row, "frequency_rank")) ELSE 0,
                      !.tags = ListCell(row, "tags")])

\* The character branch up to the call of add_character: None when it raises.
CharacterOfRow(row) ==
    IF ~IntCellValid(row, "tone") THEN None
    ELSE IF ~IntCellValid(row, "strokes") THEN None
    ELSE IF ~StrokeCellValid(row) THEN None
    ELSE Some([NewCharacter(Cell(row, "character"), Cell(row, "pinyin"),
                            IntCell(row, "tone"),
                            SplitStrip(Cell(row, "meaning")),
                            SplitStrip(Cell(row, "radicals")),
                            IntCell(row, "strokes"), Cell(row, "mnemonic"))
               EXCEPT !.stroke_order = StrokeCell(row),
                      !.components = ListCell(row, "components"),
                      !.hsk_level =
                          IF IsDigitStr(Cell(row, "hsk_level"))
                          THEN DigitsValue(Cell(row, "hsk_level")) ELSE 0,
                      !.frequency_rank =
                          IF IsDigitStr(Cell(row, "frequency_rank"))
                          THEN DigitsValue(Cell(row, "frequency_rank")) ELSE 0,
                      !.tags = ListCell(row, "tags")])

\* One turn of the loop: [st, raised, io].  fault is the fault the add of
\* this row meets (0: none); io tells that the exception is the OSError of a
\* write.
ImportRow(st, row, fault) ==
    IF IsRadicalRow(row)
    THEN LET radical == RadicalOfRow(row)
         IN  IF radical = None THEN [st |-> st, raised |-> TRUE, io |-> FALSE]
             ELSE LET r == add_radical(st, radical[1], fault)
                  IN  [st |-> r.st, raised |-> r.outcome = "raised",
                       io |-> r.outcome = "raised"]
    ELSE LET character == CharacterOfRow(row)
         IN  IF character = None THEN [st |-> st, raised |-> TRUE, io |-> FALSE]
             ELSE LET r == add_character(st, character[1], fault)
                  IN  [st |-> r.st, raised |-> r.outcome = "raised",
                       io |-> r.outcome = "raised"]

\* A slip: only the rows whose add changed the store are counted.
RECURSIVE ImportLoopCountAdded(_, _, _, _, _, _)
ImportLoopCountAdded(st, table, i, count, fault_row, fault) ==
    IF i > Len(table)
    THEN [st |-> st, outcome |-> "returned", value |-> count, failed |-> FALSE,
          io |-> FALSE]
    ELSE CHOOSE result \in
            {IF r.raised
             THEN [st |-> r.st, outcome |-> "returned", value |-> 0,
                   failed |-> TRUE, io |-> r.io]
             ELSE ImportLoopCountAdded(r.st, table, i + 1,
                                       IF r.st = st THEN count ELSE count + 1,
                                       fault_row, fault) :
               r \in {ImportRow(st, table[i], IF i = fault_row THEN fault ELSE 0)}} :
            TRUE

\* The loop from row i on, count rows done so far; an exception leaves the
\* loop for the except clause, which returns 0.  The fault, if any, is met
\* by the add of row fault_row.
RECURSIVE ImportLoop(_, _, _, _, _, _)
ImportLoop(st, table, i, count, fault_row, fault) ==
    IF i > Len(table)
    THEN [st |-> st, outcome |-> "returned", value |-> count, failed |-> FALSE,
          io |-> FALSE]
    ELSE CHOOSE result \in
            {IF r.raised
             THEN [st |-> r.st, outcome |-> "returned", value |-> 0,
                   failed |-> TRUE, io |-> r.io]
             ELSE ImportLoop(r.st, table, i + 1, count + 1, fault_row, fault) :
               r \in {ImportRow(st, table[i], IF i = fault_row THEN fault ELSE 0)}} :
            TRUE

\* A slip: the store put back as it was when the import fails.
import_from_csv_all_or_nothing(st, table, fault_row, fault) ==
    CHOOSE result \in
        {IF r.failed THEN [r EXCEPT !.st = st] ELSE r :
           r \in {ImportLoop(st, table, 1, 0, fault_row, fault)}} : TRUE

import_from_csv(st, table, fault_row, fault) ==
    ImportLoop(st, table, 1, 0, fault_row, fault)

-----------------------------------------------------------------------------
(* The values the calls are made with.  Keys: "m" the radical mu (wood),    *)
(* "s" the radical shui (water), "l" the character lin (forest), "h" the    *)
(* character he (river), "b" a character with eleven radicals.              *)

\* A fully populated radical.
R_mu ==
    [NewRadical(<<"m">>, <<"m", "u">>, <<"w", "o", "o", "d">>, "SEMANTIC", 4,
                <<"t", "r", "e", "e">>)
     EXCEPT !.stroke_order = <<"HORIZONTAL", "VERTICAL", "LEFT_DIAGONAL",
                               "RIGHT_DIAGONAL">>,
            !.common_characters = << <<"l">> >>]
\* The same key with other fields.
R_mu2 == NewRadical(<<"m">>, <<"m", "u">>, <<"e", "y", "e">>, "BOTH", 5, <<>>)
\* An all-default radical.
R_shui == NewRadical(<<"s">>, <<>>, <<>>, "UNKNOWN", 0, <<>>)

SampleRadicals == {R_mu, R_mu2, R_shui}

\* A fully populated character, whose radicals list repeats a radical.
C_lin ==
    [NewCharacter(<<"l">>, <<"L", "i", "n">>, 2,
                  << <<"w", "o", "o", "d", "s">>, <<"f", "o", "r", "e", "s", "t">> >>,
                  << <<"m">>, <<"m">> >>, 8, <<"t", "w", "o">>)
     EXCEPT !.stroke_order = <<"HORIZONTAL", "VERTICAL">>,
            !.components = << <<"m">> >>,
            !.hsk_level = 1,
            !.frequency_rank = 5,
            !.example_words = <<[word |-> <<"l", "l">>, pinyin |-> <<"s", "e", "n">>,
                                 meaning |-> <<"f">>]>>,
            !.tags = << <<"N", "a", "t">> >>]
\* The same key with other radicals.
C_lin2 == NewCharacter(<<"l">>, <<"l", "i", "n">>, 2, <<>>, << <<"s">> >>, 8, <<>>)
\* A character of the radical shui, otherwise default.
C_he ==
    NewCharacter(<<"h">>, <<"h", "e">>, 2, << <<"r", "i", "v", "e", "r">> >>,
                 << <<"s">> >>, 8, <<>>)
\* An all-default character but for its eleven distinct radicals.
C_big ==
    NewCharacter(<<"b">>, <<>>, 0, <<>>,
                 << <<"m">>, <<"s">>, <<"0">>, <<"1">>, <<"2">>, <<"3">>, <<"4">>,
                    <<"5">>, <<"6">>, <<"7">>, <<"8">> >>, 0, <<>>)

SampleCharacters == {C_lin, C_lin2, C_he, C_big}

(* The rows of the imported tables. *)

\* is_radical=True, character=shui
Row_shui ==
    [is_radical |-> <<"T", "r", "u", "e">>, character |-> <<"s">>,
     pinyin |-> <<"s", "h", "u", "i">>, meaning |-> <<"w", "a", "t", "e", "r">>,
     type |-> RadicalTypeValue.SEMANTIC, strokes |-> <<"4">>,
     stroke_order |-> <<"V", ",", " ", "G">>]
\* is_radical=false, character=he, radicals=shui; the hsk_level cell is no digit string
Row_he ==
    [is_radical |-> <<"f", "a", "l", "s", "e">>, character |-> <<"h">>,
     pinyin |-> <<"h", "e">>, meaning |-> <<"r", "i", "v", "e", "r">>,
     radicals |-> <<"s">>, tone |-> <<"2">>, strokes |-> <<"8">>,
     hsk_level |-> <<"x">>]
\* A character row with every list column filled; is_radical is empty.
Row_lin ==
    [is_radical |-> <<>>, character |-> <<"l">>, pinyin |-> <<"l", "i", "n">>,
     meaning |-> <<"w", "o", "o", "d", "s", ",", " ", "f">>,
     radicals |-> <<"m", ",", " ", "m">>, tone |-> <<"2">>, strokes |-> <<"1", "2">>,
     stroke_order |-> <<"H", ",", "V">>, components |-> <<"m">>,
     hsk_level |-> <<"1">>, frequency_rank |-> <<"5">>, tags |-> <<"N", "a", "t">>,
     mnemonic |-> <<"t", "w", "o">>]
\* A radical row whose strokes cell is no integer.
Row_bad ==
    [is_radical |-> <<"t", "r", "u", "e">>, character |-> <<"k">>,
     strokes |-> <<"x">>]

SampleRows == {Row_shui, Row_he, Row_lin, Row_bad}

\* The tables of 1 to MaxRows rows.
SampleTables == UNION {[1..n -> SampleRows] : n \in 1..MaxRows}

(* The record files that may lie in the plain root before construction. *)

NoBlock == [block |-> FALSE, yaml |-> "error", fm |-> <<>>, nulls |-> {}, body |-> "plain"]
\* A block that yaml.safe_load rejects, or reads as something other than a mapping.
BadYaml == [block |-> TRUE, yaml |-> "error", fm |-> <<>>, nulls |-> {}, body |-> "plain"]

SampleRadicalFiles ==
    (<<"m">> :> RadicalPlain(R_mu))
    @@ (<<"q">> :> Document([character |-> <<"q">>, type |-> <<"r", "o", "o", "t">>],
                            "plain"))
    @@ (<<"y">> :> BadYaml)

\* "l" and "l2" decode to the same key; "e" holds an unknown stroke literal;
\* "z" holds "radicals:" with no value, which YAML reads as null.
SampleCharacterFiles ==
    (<<"l">> :> CharacterPlain(C_lin))
    @@ (<<"l", "2">> :> CharacterPlain(C_lin2))
    @@ (<<"e">> :> Document([character |-> <<"e">>, radicals |-> << <<"m">> >>,
                             stroke_order |-> << <<"H">>, <<"X">> >>], "plain"))
    @@ (<<"n">> :> NoBlock)
    @@ (<<"z">> :> [Document([character |-> <<"z">>, pinyin |-> <<"z", "i">>], "plain")
                    EXCEPT !.nulls = {"radicals"}])

Restrict(f, D) == [x \in D |-> f[x]]

InitialDisks ==
    {[root_dir |-> [radicals |-> Restrict(SampleRadicalFiles, R),
                    characters |-> Restrict(SampleCharacterFiles, C)],
      vscode_dir |-> EmptyRoot,
      obsidian_dir |-> EmptyRoot] :
        <<R, C>> \in {rc \in (SUBSET DOMAIN SampleRadicalFiles)
                              \X (SUBSET DOMAIN SampleCharacterFiles) :
                        Cardinality(rc[1]) + Cardinality(rc[2]) <= MaxFiles}}

-----------------------------------------------------------------------------
(* The behaviours. *)

NoCall == [op |-> "none", arg |-> <<>>, outcome |-> "returned", value |-> FALSE]

\* __init__ up to the call of load_data: empty collections over some disk.
Init ==
    /\ phase = "new"
    /\ radicals = EmptyDict
    /\ characters = EmptyDict
    /\ radical_index = EmptyDict
    /\ files \in InitialDisks
    /\ ret = NoCall
    /\ added = {}
    /\ calls = 0
    /\ faults = 0

\* load_data, as __init__ calls it.
LoadData ==
    /\ phase = "new"
    /\ \E ro \in Perms(DOMAIN files.root_dir.radicals),
          co \in Perms(DOMAIN files.root_dir.characters) :
         LET rads == LoadRadicals(files.root_dir.radicals, ro, EmptyDict)
             acc == LoadCharacters(files.root_dir.characters, co,
                                   [characters |-> EmptyDict,
                                    radical_index |-> EmptyDict,
                                    raised |-> FALSE])
         IN  /\ radicals' = rads
             /\ characters' = acc.characters
             /\ radical_index' = acc.radical_index
             /\ phase' = IF acc.raised THEN "raised" ELSE "live"
             /\ ret' = [op |-> "load_data", arg |-> <<ro, co>>,
                        outcome |-> IF acc.raised THEN "raised" ELSE "returned",
                        value |-> FALSE]
    /\ UNCHANGED <<files, added, calls, faults>>

\* The store after a mutating call; io: an I/O failure occurred in it.
Commit(r, io) ==
    /\ radicals' = r.st.radicals
    /\ characters' = r.st.characters
    /\ radical_index' = r.st.radical_index
    /\ files' = r.st.files
    /\ added' = r.st.added
    /\ faults' = IF io THEN faults + 1 ELSE faults
    /\ calls' = calls + 1
    /\ UNCHANGED phase

\* A call that only reads the store.
ReadOnly ==
    /\ calls' = calls + 1
    /\ UNCHANGED <<phase, radicals, characters, radical_index, files, added>>

\* The faults a call may meet: none, or the i-th write failing.
Faults == IF faults < MaxFaults THEN 0..3 ELSE {0}

AddRadical ==
    /\ phase = "live"
    /\ calls < MaxCalls
    /\ \E radical \in SampleRadicals, fault \in Faults :
         /\ fault # 0 => ~RadicalExists(Store, radical)
         /\ \E r \in {add_radical(Store, radical, fault)} :
                /\ Commit(r, r.outcome = "raised")
                /\ ret' = [op |-> "add_radical", arg |-> radical,
                           outcome |-> r.outcome, value |-> r.value]

AddCharacter ==
    /\ phase = "live"
    /\ calls < MaxCalls
    /\ \E character \in SampleCharacters, fault \in Faults :
         /\ fault # 0 => ~CharacterExists(Store, character)
         /\ \E r \in {add_character(Store, character, fault)} :
                /\ Commit(r, r.outcome = "raised")
                /\ ret' = [op |-> "add_character", arg |-> character,
                           outcome |-> r.outcome, value |-> r.value]

\* The keys looked up: indexed ones and one that never is.
SampleRadicalKeys == {<<"m">>, <<"s">>, <<"0">>, <<"x">>}

GetCharactersByRadical ==
    /\ phase = "live"
    /\ calls < MaxCalls
    /\ \E radical \in SampleRadicalKeys :
         \E order \in IterationOrders(Store, radical) :
            ret' = [op |-> "get_characters_by_radical", arg |-> radical,
                    outcome |-> "returned",
                    value |-> get_characters_by_radical(Store, radical, order)]
    /\ ReadOnly
    /\ UNCHANGED faults

\* The queries: the empty one, every key a stored character may have, a tag
\* in another case, and one that matches nothing.
SampleQueries ==
    {<<>>, <<"l">>, <<"h">>, <<"b">>, <<"n", "A", "T">>, <<"q", "q">>}

SearchCharacters ==
    /\ phase = "live"
    /\ calls < MaxCalls
    /\ \E query \in SampleQueries :
         ret' = [op |-> "search_characters", arg |-> query,
                 outcome |-> "returned",
                 value |-> search_characters(Store, query)]
    /\ ReadOnly
    /\ UNCHANGED faults

GenerateStats ==
    /\ phase = "live"
    /\ calls < MaxCalls
    /\ ret' = [op |-> "generate_stats", arg |-> <<>>, outcome |-> "returned",
               value |-> generate_stats(Store)]
    /\ ReadOnly
    /\ UNCHANGED faults

GenerateAnkiDeck ==
    /\ phase = "live"
    /\ calls < MaxCalls
    /\ \E include_radicals \in BOOLEAN, fault \in Faults \cap {0, 1} :
         LET r == generate_anki_deck(Store, include_radicals, fault = 1)
         IN  /\ ret' = [op |-> "generate_anki_deck", arg |-> include_radicals,
                        outcome |-> "returned", value |-> r]
             /\ faults' = IF fault = 1 THEN faults + 1 ELSE faults
    /\ ReadOnly

GenerateStrokeOrderPractice ==
    /\ phase = "live"
    /\ calls < MaxCalls
    /\ \E fault \in Faults \cap {0, 1} :
         LET r == generate_stroke_order_practice(Store, fault = 1)
         IN  /\ ret' = [op |-> "generate_stroke_order_practice", arg |-> <<>>,
                        outcome |-> "returned", value |-> r]
             /\ faults' = IF fault = 1 THEN faults + 1 ELSE faults
    /\ ReadOnly

\* fault_row = 0: no write fails; otherwise the add of that row meets fault,
\* and the call is one in which that add does reach its writes.
ImportFromCsv ==
    /\ phase = "live"
    /\ calls < MaxCalls
    /\ \E table \in SampleTables :
         \E fault_row \in 0..Len(table), fault \in Faults :
            /\ (fault_row = 0) = (fault = 0)
            /\ \E r \in {import_from_csv(Store, table, fault_row, fault)} :
                   /\ fault # 0 => r.io
                   /\ Commit(r, r.io)
                   /\ ret' = [op |-> "import_from_csv", arg |-> table,
                              outcome |-> r.outcome, value |-> r.value,
                              failed |-> r.failed]

Next ==
    \/ LoadData
    \/ AddRadical
    \/ AddCharacter
    \/ GetCharactersByRadical
    \/ SearchCharacters
    \/ GenerateStats
    \/ GenerateAnkiDeck
    \/ GenerateStrokeOrderPractice
    \/ ImportFromCsv

Spec == Init /\ [][Next]_vars

-----------------------------------------------------------------------------
(* The codec alone: a value is written by _save_radical / _save_character    *)
(* to empty roots and the plain file is read back by the parser.            *)

\* Every field is either at its default or populated.
CodecRadicals ==
    {[character |-> <<"m">>, pinyin |-> p, meaning |-> m, type |-> t,
      strokes |-> n, stroke_order |-> so, common_characters |-> cc,
      mnemonic |-> mn] :
        p \in {<<>>, <<"m", "u">>}, m \in {<<>>, <<"w", "o", "o", "d">>},
        t \in DOMAIN RadicalTypeValue, n \in {0, 4},
        so \in {<<>>, <<"HORIZONTAL", "BEND">>}, cc \in {<<>>, << <<"l">> >>},
        mn \in {<<>>, <<"4">>}}

CodecCharacters ==
    {[character |-> <<"l">>, pinyin |-> p, tone |-> t, meaning |-> m,
      radicals |-> r, strokes |-> n, stroke_order |-> so, components |-> co,
      hsk_level |-> h, frequency_rank |-> f, mnemonic |-> mn,
      example_words |-> ew, tags |-> tg] :
        p \in {<<>>, <<"l", "i", "n">>}, t \in {0, 2},
        m \in {<<>>, << <<"w", "o", "o", "d", "s">>, <<>> >>},
        r \in {<<>>, << <<"m">>, <<"m">> >>}, n \in {0, 8},
        so \in {<<>>, <<"DOT", "HOOK">>}, co \in {<<>>, << <<"m">> >>},
        h \in {0, 1}, f \in {0, 5}, mn \in {<<>>, <<"t", "w", "o">>},
        ew \in {<<>>, <<[word |-> <<"l", "l">>, pinyin |-> <<"s", "e", "n">>,
                         meaning |-> <<"f">>]>>},
        tg \in {<<>>, << <<"N", "a", "t">> >>}}

EmptyDisk ==
    [root_dir |-> EmptyRoot, vscode_dir |-> EmptyRoot, obsidian_dir |-> EmptyRoot]

CodecInit ==
    /\ phase = "codec"
    /\ radicals = EmptyDict
    /\ characters = EmptyDict
    /\ radical_index = EmptyDict
    /\ files = EmptyDisk
    /\ \/ ret \in {[op |-> "radical", arg |-> v, outcome |-> "returned",
                    value |-> None] : v \in CodecRadicals}
       \/ ret \in {[op |-> "character", arg |-> v, outcome |-> "returned",
                    value |-> None] : v \in CodecCharacters}
    /\ added = {}
    /\ calls = 0
    /\ faults = 0

CodecUnchanged ==
    UNCHANGED <<phase, radicals, characters, radical_index, added, calls, faults>>

SaveRadicalStep ==
    /\ ret.op = "radical"
    /\ files' = SaveRadical(files, ret.arg, 0).files
    /\ ret' = [ret EXCEPT !.op = "_save_radical"]
    /\ CodecUnchanged

ParseRadicalStep ==
    /\ ret.op = "_save_radical"
    /\ ret' = [ret EXCEPT
                 !.op = "_parse_radical_file",
                 !.value = ParseRadicalFile(
                              files.root_dir.radicals[ret.arg.character])]
    /\ UNCHANGED files
    /\ CodecUnchanged

SaveCharacterStep ==
    /\ ret.op = "character"
    /\ files' = SaveCharacter(files, ret.arg, 0).files
    /\ ret' = [ret EXCEPT !.op = "_save_character"]
    /\ CodecUnchanged

ParseCharacterStep ==
    /\ ret.op = "_save_character"
    /\ ret' = [ret EXCEPT
                 !.op = "_parse_character_file",
                 !.value = ParseCharacterFile(
                              files.root_dir.characters[ret.arg.character])]
    /\ UNCHANGED files
    /\ CodecUnchanged

CodecNext ==
    \/ SaveRadicalStep
    \/ ParseRadicalStep
    \/ SaveCharacterStep
    \/ ParseCharacterStep

SpecCodec == CodecInit /\ [][CodecNext]_vars

-----------------------------------------------------------------------------
(* Restart: a store built on empty roots takes add_radical / add_character   *)
(* calls, and at any moment a fresh store is constructed on the same roots.  *)

\* The store constructed on empty roots: load_data finds no file.
RestartInit ==
    /\ phase = "live"
    /\ radicals = EmptyDict
    /\ characters = EmptyDict
    /\ radical_index = EmptyDict
    /\ files = EmptyDisk
    /\ ret = NoCall
    /\ added = {}
    /\ calls = 0
    /\ faults = 0

\* __init__ of a fresh store on the roots as they are: empty collections,
\* then load_data over the files of the plain root.
Restart ==
    /\ phase = "live"
    /\ \E ro \in Perms(DOMAIN files.root_dir.radicals),
          co \in Perms(DOMAIN files.root_dir.characters) :
         LET rads == LoadRadicals(files.root_dir.radicals, ro, EmptyDict)
             acc == LoadCharacters(files.root_dir.characters, co,
                                   [characters |-> EmptyDict,
                                    radical_index |-> EmptyDict,
                                    raised |-> FALSE])
         IN  /\ radicals' = rads
             /\ characters' = acc.characters
             /\ radical_index' = acc.radical_index
             /\ phase' = IF acc.raised THEN "raised" ELSE "live"
             /\ ret' = [op |-> "restart", arg |-> <<ro, co>>,
                        outcome |-> IF acc.raised THEN "raised" ELSE "returned",
                        value |-> FALSE]
    /\ added' = {}
    /\ UNCHANGED <<files, calls, faults>>

RestartNext ==
    \/ AddRadical
    \/ AddCharacter
    \/ Restart

SpecRestart == RestartInit /\ [][RestartNext]_vars

-----------------------------------------------------------------------------
(* The importer alone: tables whose rows hold cells that do not convert, *)
(* imported into a store that was built on empty roots.                      *)

\* A character row whose tone cell is no integer.
Row_tone ==
    [is_radical |-> <<"f", "a", "l", "s", "e">>, character |-> <<"t">>,
     radicals |-> <<"s">>, tone |-> <<"x">>, strokes |-> <<"3">>]
\* A radical row whose type cell is no RadicalType value.
Row_type ==
    [is_radical |-> <<"t", "r", "u", "e">>, character |-> <<"r">>,
     type |-> <<"r", "o", "o", "t">>, strokes |-> <<"3">>]
\* A character row whose stroke_order cell holds an unknown literal.
Row_stroke ==
    [is_radical |-> <<"f", "a", "l", "s", "e">>, character |-> <<"o">>,
     radicals |-> <<"s">>, tone |-> <<"1">>, strokes |-> <<"2">>,
     stroke_order |-> <<"H", ",", "X">>]
\* A character row whose frequency_rank and hsk_level cells are no digit
\* strings (int() would take the second one), with signed and padded integers
\* in tone and strokes.
Row_freq ==
    [is_radical |-> <<"f", "a", "l", "s", "e">>, character |-> <<"f">>,
     radicals |-> <<"s", ",", "m">>, tone |-> <<"+", "4">>, strokes |-> <<" ", "7">>,
     hsk_level |-> <<" ", "3">>, frequency_rank |-> <<"1", "x">>]

ImportRows == {Row_shui, Row_he, Row_bad, Row_tone, Row_type, Row_stroke, Row_freq}

ImportTables == UNION {[1..n -> ImportRows] : n \in 1..MaxRows}

\* import_from_csv of one of these tables; fault_row as in ImportFromCsv.
ImportTable ==
    /\ phase = "live"
    /\ calls < MaxCalls
    /\ \E table \in ImportTables :
         \E fault_row \in 0..Len(table), fault \in Faults :
            /\ (fault_row = 0) = (fault = 0)
            /\ \E r \in {import_from_csv(Store, table, fault_row, fault)} :
                   /\ fault # 0 => r.io
                   /\ Commit(r, r.io)
                   /\ ret' = [op |-> "import_from_csv", arg |-> table,
                              outcome |-> r.outcome, value |-> r.value,
                              failed |-> r.failed, fault_row |-> fault_row]

ImportNext == ImportTable

SpecImport == RestartInit /\ [][ImportNext]_vars

-----------------------------------------------------------------------------
(* Properties. *)

IsIndexed(index, radical, key) ==
    DictHas(index, radical) /\ key \in index.val[radical]

\* C1. Index consistency: every character that add_character accepted
\* (returned True for) is a member of radical_index[r] for every r of its
\* radicals list, in every state reached by load_data and any calls after it.
IndexConsistency ==
    \A c \in added :
        \A i \in 1..Len(c.radicals) :
            IsIndexed(radical_index, c.radicals[i], c.character)

\* An accepted character with several radicals, one of them shared with
\* another character.
IndexConsistencyWitness ==
    \E c \in added :
        /\ Len(c.radicals) > 1
        /\ \E i \in 1..Len(c.radicals) :
              /\ IsIndexed(radical_index, c.radicals[i], c.character)
              /\ Cardinality(radical_index.val[c.radicals[i]]) > 1

\* C2. An add_character / add_radical call whose key is already present
\* returns False and changes neither the collections, the index nor any
\* file: the value under the key stays the one inserted first.
DuplicateAddIsNoOp ==
    [][(/\ calls' = calls + 1
        /\ ret'.op \in {"add_radical", "add_character"}
        /\ IF ret'.op = "add_radical"
           THEN DictHas(radicals, ret'.arg.character)
           ELSE DictHas(characters, ret'.arg.character))
       => /\ ret'.outcome = "returned"
          /\ ret'.value = FALSE
          /\ UNCHANGED <<radicals, characters, radical_index, files>>]_vars

\* A rejected add_character whose argument has other radicals than the
\* stored value.
DuplicateAddWitness ==
    /\ ret.op = "add_character"
    /\ ret.outcome = "returned"
    /\ ret.value = FALSE
    /\ DictHas(characters, ret.arg.character)
    /\ characters.val[ret.arg.character].radicals # ret.arg.radicals

\* C3. get_characters_by_radical(k) returns normally; the result is empty
\* when k is no key of radical_index, and otherwise holds exactly one entry,
\* the stored Character, for each key of radical_index[k] that is a key of
\* characters.
LookupByRadical ==
    ret.op = "get_characters_by_radical" =>
        LET keys == IF DictHas(radical_index, ret.arg)
                    THEN radical_index.val[ret.arg] \cap DictKeys(characters)
                    ELSE {}
        IN  /\ ret.outcome = "returned"
            /\ Len(ret.value) = Cardinality(keys)
            /\ \A k \in keys :
                  Cardinality({i \in 1..Len(ret.value) :
                                  ret.value[i] = characters.val[k]}) = 1

\* A lookup that returns, once, a character whose radicals list repeats the key.
LookupByRadicalWitness ==
    /\ ret.op = "get_characters_by_radical"
    /\ Len(ret.value) = 1
    /\ Cardinality({i \in 1..Len(ret.value[1].radicals) :
                       ret.value[1].radicals[i] = ret.arg}) = 2

\* C4. Search totality: search_characters("") returns every stored
\* character exactly once, and search_characters(c.character) returns a
\* list that holds c, for every stored character c.
SearchTotality ==
    ret.op = "search_characters" =>
        /\ ret.arg = <<>> =>
              /\ Len(ret.value) = Cardinality(DictKeys(characters))
              /\ \A k \in DictKeys(characters) :
                    Cardinality({i \in 1..Len(ret.value) :
                                    ret.value[i] = characters.val[k]}) = 1
        /\ \A k \in DictKeys(characters) :
              characters.val[k].character = ret.arg =>
                  \E i \in 1..Len(ret.value) : ret.value[i] = characters.val[k]

\* An empty query over a store of two characters or more, one of which
\* matches by more than one criterion.
SearchTotalityWitness ==
    /\ ret.op = "search_characters"
    /\ ret.arg = <<>>
    /\ Len(ret.value) >= 2
    /\ \E i \in 1..Len(ret.value) : ret.value[i].tags # <<>>

\* C5. Stats boundary: most_common_radicals has at most 10 entries, in
\* non-increasing order of count, each count the size of radical_index for
\* its radical; total_characters and total_radicals are the numbers of
\* stored characters and radicals.
StatsBoundary ==
    ret.op = "generate_stats" =>
        LET top == ret.value.most_common_radicals
        IN  /\ Len(top) <= 10
            /\ \A i \in 1..(Len(top) - 1) : top[i].count >= top[i + 1].count
            /\ \A i \in 1..Len(top) :
                  /\ DictHas(radical_index, top[i].radical)
                  /\ top[i].count =
                        Cardinality(radical_index.val[top[i].radical])
            /\ ret.value.total_characters = Cardinality(DictKeys(characters))
            /\ ret.value.total_radicals = Cardinality(DictKeys(radicals))

\* Stats over an index of more than 10 radicals with unequal counts.
StatsBoundaryWitness ==
    /\ ret.op = "generate_stats"
    /\ Cardinality(DictKeys(radical_index)) > 10
    /\ Len(ret.value.most_common_radicals) = 10
    /\ ret.value.most_common_radicals[1].count
          > ret.value.most_common_radicals[10].count

\* C6. Round trip: the parser applied to the plain file that _save_radical /
\* _save_character wrote for a value yields that value, field for field.
RoundTrip ==
    /\ ret.op = "_parse_radical_file" => ret.value = Some(ret.arg)
    /\ ret.op = "_parse_character_file" => ret.value = Some(ret.arg)

\* A character read back that mixes default fields (hsk_level 0, no tags)
\* with populated ones.
RoundTripWitness ==
    /\ ret.op = "_parse_character_file"
    /\ ret.value # None
    /\ ret.arg.hsk_level = 0
    /\ ret.arg.frequency_rank # 0
    /\ ret.arg.tags = <<>>
    /\ ret.arg.stroke_order # <<>>

\* C7. Triple write: after an add_radical / add_character that returned
\* True, each of the three roots holds a file for the key in the matching
\* subarea, and the three files carry the same metadata block.
TripleWrite ==
    (/\ ret.op \in {"add_radical", "add_character"}
     /\ ret.outcome = "returned"
     /\ ret.value = TRUE)
    => LET sub == IF ret.op = "add_radical" THEN "radicals" ELSE "characters"
           stem == ret.arg.character
       IN  \A root \in Roots :
              /\ stem \in DOMAIN files[root][sub]
              /\ HasFrontmatter(files[root][sub][stem])
              /\ files[root][sub][stem].fm = files.root_dir[sub][stem].fm
              /\ files[root][sub][stem].nulls = files.root_dir[sub][stem].nulls

\* An accepted character whose three files differ in their markup.
TripleWriteWitness ==
    /\ ret.op = "add_character"
    /\ ret.outcome = "returned"
    /\ ret.value = TRUE
    /\ \A root \in Roots : ret.arg.character \in DOMAIN files[root].characters
    /\ Cardinality({files[root].characters[ret.arg.character].body :
                       root \in Roots}) = 3

\* C8. Load isolates decode failures: load_data returns normally whatever
\* files lie in the plain root; a file that does not decode adds nothing to
\* radicals, characters or radical_index; every file that decodes is loaded
\* and indexed.
LoadIsolatesDecodeFailures ==
    ret.op = "load_data" =>
        LET rdir == files.root_dir.radicals
            cdir == files.root_dir.characters
            rgood == {ParseRadicalFile(rdir[f])[1] :
                         f \in {g \in DOMAIN rdir : ParseRadicalFile(rdir[g]) # None}}
            cgood == {ParseCharacterFile(cdir[f])[1] :
                         f \in {g \in DOMAIN cdir : ParseCharacterFile(cdir[g]) # None}}
        IN  /\ ret.outcome = "returned"
            /\ DictKeys(radicals) = {r.character : r \in rgood}
            /\ DictKeys(characters) = {c.character : c \in cgood}
            /\ \A k \in DictKeys(radicals) : radicals.val[k] \in rgood
            /\ \A k \in DictKeys(characters) : characters.val[k] \in cgood
            /\ \A c \in cgood : \A i \in 1..Len(c.radicals) :
                  IsIndexed(radical_index, c.radicals[i], c.character)
            /\ DictKeys(radical_index) = UNION {Range(c.radicals) : c \in cgood}

\* C9. import_from_csv, when no row makes it fail, returns the number of
\* rows; every row has gone to add_radical or add_character in table order:
\* a row with a new key is stored (the first such row of a key), a character
\* row is indexed under each radical it lists, and a row whose key exists
\* is counted and leaves the stored value as it was.
ImportCountsRows ==
    [][(/\ calls' = calls + 1
        /\ ret'.op = "import_from_csv"
        /\ ~ret'.failed)
       => LET table == ret'.arg
              Key(i) == Cell(table[i], "character")
              RadRows == {i \in 1..Len(table) : IsRadicalRow(table[i])}
              CharRows == (1..Len(table)) \ RadRows
              First(rows, i) == \A j \in rows : j < i => Key(j) # Key(i)
          IN  /\ ret'.outcome = "returned"
              /\ ret'.value = Len(table)
              /\ DictKeys(radicals') = DictKeys(radicals) \cup {Key(i) : i \in RadRows}
              /\ DictKeys(characters') =
                    DictKeys(characters) \cup {Key(i) : i \in CharRows}
              /\ \A k \in DictKeys(radicals) : radicals'.val[k] = radicals.val[k]
              /\ \A k \in DictKeys(characters) :
                    characters'.val[k] = characters.val[k]
              /\ \A i \in RadRows :
                    (~DictHas(radicals, Key(i)) /\ First(RadRows, i))
                    => radicals'.val[Key(i)] = RadicalOfRow(table[i])[1]
              /\ \A i \in CharRows :
                    (~DictHas(characters, Key(i)) /\ First(CharRows, i))
                    => /\ characters'.val[Key(i)] = CharacterOfRow(table[i])[1]
                       /\ \A r \in Range(SplitStrip(Cell(table[i], "radicals"))) :
                             IsIndexed(radical_index', r, Key(i))]_vars

\* The table of one radical row (shui) and one character row (he, radicals =
\* shui) imported into an empty store.
ImportCountsRowsWitness ==
    /\ ret.op = "import_from_csv"
    /\ ret.arg = <<Row_shui, Row_he>>
    /\ ret.value = 2
    /\ DictKeys(radicals) = {<<"s">>}
    /\ DictKeys(characters) = {<<"h">>}
    /\ radical_index.val[<<"s">>] = {<<"h">>}

\* C10. The store and renderer operations report a duplicate key or a
\* failed write by their return value: none of add_radical, add_character,
\* generate_anki_deck, generate_stroke_order_practice lets the failure
\* propagate as an exception.
FailuresAreReturned ==
    ret.op \in {"add_radical", "add_character", "generate_anki_deck",
                "generate_stroke_order_practice"}
    => ret.outcome = "returned"

\* C11. The index is derived state: in every state of a constructed store,
\* radical_index[r] is exactly the set of the keys k of characters with r in
\* characters[k].radicals, and radical_index has no entry for any other r.
IndexIsDerived ==
    phase = "live" =>
        LET Listing(r) == {k \in DictKeys(characters) :
                              r \in Range(characters.val[k].radicals)}
        IN  /\ DictKeys(radical_index) =
                  UNION {Range(characters.val[k].radicals) : k \in DictKeys(characters)}
            /\ \A r \in DictKeys(radical_index) : radical_index.val[r] = Listing(r)

\* C12, as amended.  Referential leniency: add_character(c) with a new key
\* and no failed write returns True and indexes c under every entry of
\* c.radicals, also when an entry is no key of radicals; and
\* get_characters_by_radical(k) for a k that is no key of radicals returns
\* normally: the empty list when k is no key of radical_index, and otherwise
\* one entry for each stored character indexed under k.
ReferentialLeniency ==
    [][/\ (/\ calls' = calls + 1
           /\ ret'.op = "add_character"
           /\ ~DictHas(characters, ret'.arg.character)
           /\ faults' = faults)
          => /\ ret'.outcome = "returned"
             /\ ret'.value = TRUE
             /\ characters'.val[ret'.arg.character] = ret'.arg
             /\ \A i \in 1..Len(ret'.arg.radicals) :
                   IsIndexed(radical_index', ret'.arg.radicals[i],
                             ret'.arg.character)
       /\ (/\ calls' = calls + 1
           /\ ret'.op = "get_characters_by_radical"
           /\ ~DictHas(radicals, ret'.arg))
          => /\ ret'.outcome = "returned"
             /\ Len(ret'.value) =
                   IF DictHas(radical_index, ret'.arg)
                   THEN Cardinality(radical_index.val[ret'.arg]
                                       \cap DictKeys(characters))
                   ELSE 0]_calls

\* A lookup of a key that is no stored radical and under which an accepted
\* character is indexed: the result holds that character.
ReferentialLeniencyWitness ==
    /\ ret.op = "get_characters_by_radical"
    /\ ~DictHas(radicals, ret.arg)
    /\ ret.value # <<>>
    /\ \E c \in added : c = ret.value[1] /\ ret.arg \in Range(c.radicals)

\* C12, as stated: ... and a get_characters_by_radical lookup of a key that
\* is no key of radicals returns the empty list.
LookupOfUnknownRadicalIsEmpty ==
    [][/\ (/\ calls' = calls + 1
           /\ ret'.op = "add_character"
           /\ ~DictHas(characters, ret'.arg.character)
           /\ faults' = faults)
          => /\ ret'.outcome = "returned"
             /\ ret'.value = TRUE
             /\ \A i \in 1..Len(ret'.arg.radicals) :
                   IsIndexed(radical_index', ret'.arg.radicals[i],
                             ret'.arg.character)
       /\ (/\ calls' = calls + 1
           /\ ret'.op = "get_characters_by_radical"
           /\ ~DictHas(radicals, ret'.arg))
          => /\ ret'.outcome = "returned"
             /\ ret'.value = <<>>]_calls

\* C14. Monotonic store: no step of a constructed store (add_radical,
\* add_character, import_from_csv, whether it returns or raises, or a query,
\* search, stats or export call) removes a key of radicals or characters or
\* changes the value under an existing key; every radical_index[r] after the
\* step includes radical_index[r] before it; and the query, search, stats and
\* export calls leave the three collections as they were.
MonotonicStore ==
    [][phase = "live" =>
        /\ \A k \in DictKeys(radicals) :
              DictHas(radicals', k) /\ radicals'.val[k] = radicals.val[k]
        /\ \A k \in DictKeys(characters) :
              DictHas(characters', k) /\ characters'.val[k] = characters.val[k]
        /\ \A r \in DictKeys(radical_index) :
              /\ DictHas(radical_index', r)
              /\ radical_index.val[r] \subseteq radical_index'.val[r]
        /\ ret'.op \in {"get_characters_by_radical", "search_characters",
                        "generate_stats", "generate_anki_deck",
                        "generate_stroke_order_practice"}
           => UNCHANGED <<radicals, characters, radical_index>>
      ]_<<radicals, characters, radical_index>>

\* Two accepted characters in a row, the second one extending the index set
\* the first one made.
MonotonicStoreWitness ==
    /\ calls = 2
    /\ ret.op = "add_character"
    /\ ret.value = TRUE
    /\ Cardinality(added) = 2
    /\ \E r \in DictKeys(radical_index) :
          {c.character : c \in added} \subseteq radical_index.val[r]

\* C15. Restart equivalence: when every add_radical / add_character call
\* made on a store that started from empty roots has completed (no write
\* failed), a fresh store constructed on the same roots returns normally and
\* has the same keys of radicals, the same keys of characters with the same
\* radicals lists, and the same radical_index as the store that made the calls.
RestartEquivalence ==
    [][(ret'.op = "restart" /\ faults = 0)
       => /\ ret'.outcome = "returned"
          /\ DictKeys(radicals') = DictKeys(radicals)
          /\ DictKeys(characters') = DictKeys(characters)
          /\ \A k \in DictKeys(characters) :
                characters'.val[k].radicals = characters.val[k].radicals
          /\ DictKeys(radical_index') = DictKeys(radical_index)
          /\ \A r \in DictKeys(radical_index) :
                radical_index'.val[r] = radical_index.val[r]
      ]_<<radicals, characters, radical_index, phase>>

\* A fresh store built after two accepted adds, of which one a character
\* with several radicals.
RestartEquivalenceWitness ==
    /\ ret.op = "restart"
    /\ ret.outcome = "returned"
    /\ faults = 0
    /\ calls = 2
    /\ DictKeys(characters) # {}
    /\ Cardinality(DictKeys(radical_index)) > 1
    /\ Cardinality(DictKeys(radicals) \cup DictKeys(characters)) = 2

\* The cells of a row that its branch of the importer converts with int(),
\* RadicalType() or StrokeType(): one of them does not convert.
RowFails(row) ==
    \/ ~IntCellValid(row, "strokes")
    \/ ~StrokeCellValid(row)
    \/ IF IsRadicalRow(row)
       THEN ~IsEnumValue(RadicalTypeValue, TypeCell(row))
       ELSE ~IntCellValid(row, "tone")

\* C13. Importer numeric asymmetry.  When a row's strokes cell or, for a
\* character row, tone cell is no integer, or a radical row's type cell or a
\* row's stroke_order cell holds an unknown literal, the import fails:
\* it returns 0 through its except clause and neither that row nor a later
\* one is added.  When no row is like that and no write fails, the import
\* returns the number of rows, and a character row whose hsk_level or
\* frequency_rank cell is no digit string is stored with that field 0.
ImportNumericAsymmetry ==
    [][(calls' = calls + 1 /\ ret'.op = "import_from_csv")
       => LET table == ret'.arg
              Key(i) == Cell(table[i], "character")
              Bad == {i \in 1..Len(table) : RowFails(table[i])}
              Before(i) == \A j \in Bad : i < j
              FirstOfKey(i) ==
                  \A j \in 1..(i - 1) :
                     IsRadicalRow(table[j]) = IsRadicalRow(table[i])
                     => Key(j) # Key(i)
          IN  /\ Bad # {}
                 => /\ ret'.failed
                    /\ ret'.value = 0
                    /\ DictKeys(radicals') \subseteq
                          DictKeys(radicals)
                          \cup {Key(i) : i \in {j \in 1..Len(table) :
                                                  Before(j) /\ IsRadicalRow(table[j])}}
                    /\ DictKeys(characters') \subseteq
                          DictKeys(characters)
                          \cup {Key(i) : i \in {j \in 1..Len(table) :
                                                  Before(j) /\ ~IsRadicalRow(table[j])}}
              /\ (Bad = {} /\ faults' = faults)
                 => /\ ~ret'.failed
                    /\ ret'.value = Len(table)
                    /\ \A i \in 1..Len(table) :
                          (/\ ~IsRadicalRow(table[i])
                           /\ ~DictHas(characters, Key(i))
                           /\ FirstOfKey(i))
                          => /\ DictHas(characters', Key(i))
                             /\ ~IsDigitStr(Cell(table[i], "hsk_level"))
                                => characters'.val[Key(i)].hsk_level = 0
                             /\ ~IsDigitStr(Cell(table[i], "frequency_rank"))
                                => characters'.val[Key(i)].frequency_rank = 0
      ]_calls

\* An import that returned 2 for two character rows, one with hsk_level "x"
\* and one with hsk_level " 3" and frequency_rank "1x", both stored with 0.
ImportNumericAsymmetryWitness ==
    /\ ret.op = "import_from_csv"
    /\ ret.arg = <<Row_he, Row_freq>>
    /\ ~ret.failed
    /\ ret.value = 2
    /\ characters.val[<<"h">>].hsk_level = 0
    /\ characters.val[<<"f">>].hsk_level = 0
    /\ characters.val[<<"f">>].frequency_rank = 0
    /\ characters.val[<<"f">>].tone = 4

\* C16. Import is not atomic: when import_from_csv fails at row k (a cell
\* that does not convert, or a write error in the add of that row), it
\* returns 0, and every row before k is in the store: a row with a new key
\* was added as converted, has its files in the three roots and, for a
\* character row, is indexed under each of its radicals.
ImportNotAtomic ==
    [][(calls' = calls + 1 /\ ret'.op = "import_from_csv" /\ ret'.failed)
       => LET table == ret'.arg
              Key(i) == Cell(table[i], "character")
              Sub(i) == IF IsRadicalRow(table[i]) THEN "radicals" ELSE "characters"
              k == IF ret'.fault_row # 0 THEN ret'.fault_row
                   ELSE CHOOSE i \in 1..Len(table) :
                           /\ RowFails(table[i])
                           /\ \A j \in 1..(i - 1) : ~RowFails(table[j])
              New(i) ==
                  /\ IF IsRadicalRow(table[i])
                     THEN ~DictHas(radicals, Key(i))
                     ELSE ~DictHas(characters, Key(i))
                  /\ \A j \in 1..(i - 1) :
                        IsRadicalRow(table[j]) = IsRadicalRow(table[i])
                        => Key(j) # Key(i)
          IN  /\ ret'.outcome = "returned"
              /\ ret'.value = 0
              /\ \A i \in 1..(k - 1) :
                    /\ IF IsRadicalRow(table[i])
                       THEN DictHas(radicals', Key(i))
                       ELSE DictHas(characters', Key(i))
                    /\ New(i)
                       => /\ IF IsRadicalRow(table[i])
                             THEN radicals'.val[Key(i)] = RadicalOfRow(table[i])[1]
                             ELSE /\ characters'.val[Key(i)]
                                        = CharacterOfRow(table[i])[1]
                                  /\ \A r \in Range(SplitStrip(Cell(table[i],
                                                                     "radicals"))) :
                                        IsIndexed(radical_index', r, Key(i))
                          /\ \A root \in Roots :
                                Key(i) \in DOMAIN files'[root][Sub(i)]
      ]_calls

\* A first import of two rows that failed at the second one and returned 0
\* with the record of the first row stored and written.
ImportNotAtomicWitness ==
    /\ calls = 1
    /\ ret.op = "import_from_csv"
    /\ ret.failed
    /\ ret.value = 0
    /\ Len(ret.arg) = 2
    /\ Cardinality(DictKeys(radicals) \cup DictKeys(characters)) >= 1
    /\ \E stem \in DictKeys(radicals) \cup DictKeys(characters) :
          stem = Cell(ret.arg[1], "character")
          /\ \A root \in Roots :
                stem \in (DOMAIN files[root].radicals) \cup (DOMAIN files[root].characters)

=============================================================================
